---- MODULE Spec2Model ----
(***************************************************************************)
(* A model of mldata.dataset.Dataset (src/mldata/dataset.py): the client   *)
(* view of one remote dataset, its paged element listing, the two-buffer   *)
(* generator of __iter__, keyed lookup / insert / delete and the export    *)
(* to a local folder.                                                      *)
(*                                                                         *)
(* The specifications share the variables:                                 *)
(*   SpecIter  generators of __iter__ over an unchanging remote collection *)
(*             whose pages have arbitrary non-empty lengths;               *)
(*   SpecKeys  calls of keys() over the same collections;                  *)
(*   Spec      add_element, __getitem__, __delitem__ and refresh against   *)
(*             a remote side that they change;                             *)
(*   SpecExport  save_to_folder of an unchanging remote dataset into one   *)
(*             local folder.                                               *)
(* A remote request of a call may fail: every call takes the ordinal of    *)
(* its request that fails as an input.                                     *)
(***************************************************************************)
EXTENDS Integers, Sequences, FiniteSets, TLC

VARIABLES
    elements,            \* remote: the element records of the dataset, in server order
    pageLens,            \* remote: the server's page lengths (the last one repeats)
    remoteData,          \* remote: the dataset's own metadata record
    nextId,              \* remote: the id the next POST of an element gets
    data,                \* Dataset.data
    elements_count,      \* Dataset.elements_count
    comments_count,      \* Dataset.comments_count
    binary_interpreter,  \* Dataset.binary_interpreter
    fs,                  \* the local filesystem under the export folder
    iters,               \* the generators created by Dataset.__iter__
    last                 \* what the caller observed of the last operation

vars == <<elements, pageLens, remoteData, nextId, data, elements_count,
          comments_count, binary_interpreter, fs, iters, last>>

remoteVars == <<elements, pageLens, remoteData, nextId>>
localVars == <<data, elements_count, comments_count, binary_interpreter>>

----------------------------------------------------------------------------
\* Bounds of the model.

MaxPages == 3       \* page schedules have at most this many non-empty pages
MaxPageLen == 3     \* and pages of at most this many summaries

\* The generators alive at the same time in SpecIter.
IterIds == {"A", "B"}

None == "None"

Min(a, b) == IF a <= b THEN a ELSE b

RECURSIVE SeqSum(_)
SeqSum(s) == IF s = <<>> THEN 0 ELSE Head(s) + SeqSum(Tail(s))

----------------------------------------------------------------------------
\* The remote side: GET datasets/{url_prefix}/elements[?page=N].

\* Length the server gives to its k-th page (k = 1, 2, ...).
PageLen(k) == IF pageLens = <<>> THEN 1 ELSE pageLens[Min(k, Len(pageLens))]

\* Number of elements on the pages before page p (p = 0, 1, ...).
RECURSIVE PageStart(_)
PageStart(p) == IF p <= 0 THEN 0 ELSE PageStart(p - 1) + PageLen(p)

\* The summary of an element in a list response: the record without its content.
Summary(e) ==
    [id |-> e.id, title |-> e.title, description |-> e.description,
     tags |-> e.tags, http_ref |-> e.http_ref]

\* The list response for page p; an omitted page is page 0.
ListPage(p) ==
    LET off == PageStart(p)
        hi  == Min(off + PageLen(p + 1), Len(elements))
    IN  [k \in 1..(IF hi > off THEN hi - off ELSE 0) |-> Summary(elements[off + k])]

\* Element.from_dict: the Element view of a summary or of a GET result.
ElementFromDict(d) ==
    [id |-> d.id, title |-> d.title, description |-> d.description,
     tags |-> d.tags, http_ref |-> d.http_ref]

----------------------------------------------------------------------------
\* Dataset.__iter__: the generator.  A generator is a record; `reqs' is the
\* log of the list requests it issued (page index, number of items it had
\* yielded when it issued the request) and `out' the items it yielded.

IterNew ==
    [pc |-> "new", page |-> 0, first |-> <<>>, second |-> <<>>,
     new_list_requested |-> FALSE, iteration |-> -1,
     reqs |-> <<>>, out |-> <<>>]

\* `fault' is the ordinal of the list request of this generator that fails
\* (0: none fails).
FetchFails(it, fault) == Len(it.reqs) + 1 = fault

LogReq(it, p) == Append(it.reqs, [page |-> p, at |-> Len(it.out)])

\* A prefetch issued as soon as the index reaches the middle of the page.
IterPrefetchEarly(it, fault) ==
    LET i1 == it.iteration + 1
    IN  IF i1 >= (Len(it.first) \div 2) /\ ~it.new_list_requested
        THEN IF FetchFails(it, fault)
             THEN [it EXCEPT !.pc = "failed", !.iteration = i1,
                             !.page = it.page + 1,
                             !.reqs = LogReq(it, it.page + 1)]
             ELSE [it EXCEPT !.iteration = i1,
                             !.page = it.page + 1,
                             !.second = ListPage(it.page + 1),
                             !.new_list_requested = TRUE,
                             !.reqs = LogReq(it, it.page + 1)]
        ELSE [it EXCEPT !.iteration = i1]

\* A prefetch that takes a failed request for an empty page.
IterPrefetchSwallows(it, fault) ==
    LET i1 == it.iteration + 1
    IN  IF i1 > (Len(it.first) \div 2) /\ ~it.new_list_requested
        THEN [it EXCEPT !.iteration = i1,
                        !.page = it.page + 1,
                        !.second = IF FetchFails(it, fault) THEN <<>>
                                   ELSE ListPage(it.page + 1),
                        !.new_list_requested = TRUE,
                        !.reqs = LogReq(it, it.page + 1)]
        ELSE [it EXCEPT !.iteration = i1]

\* Lines 140-145: advance the index and prefetch the following page once
\* the index has passed the middle of the current one.
IterPrefetch(it, fault) ==
    LET i1 == it.iteration + 1
    IN  IF i1 > (Len(it.first) \div 2) /\ ~it.new_list_requested
        THEN IF FetchFails(it, fault)
             THEN [it EXCEPT !.pc = "failed", !.iteration = i1,
                             !.page = it.page + 1,
                             !.reqs = LogReq(it, it.page + 1)]
             ELSE [it EXCEPT !.iteration = i1,
                             !.page = it.page + 1,
                             !.second = ListPage(it.page + 1),
                             !.new_list_requested = TRUE,
                             !.reqs = LogReq(it, it.page + 1)]
        ELSE [it EXCEPT !.iteration = i1]

\* A swap that forgets to reset the index.
IterSwapKeepsIndex(it) ==
    IF it.iteration >= Len(it.first)
    THEN [it EXCEPT !.first = it.second, !.second = <<>>,
                    !.new_list_requested = FALSE]
    ELSE it

\* A swap that forgets to clear the requested flag.
IterSwapKeepsRequested(it) ==
    IF it.iteration >= Len(it.first)
    THEN [it EXCEPT !.first = it.second, !.second = <<>>,
                    !.iteration = 0]
    ELSE it

\* Lines 147-151: swap the buffers when the current one is exhausted.
IterSwap(it) ==
    IF it.iteration >= Len(it.first)
    THEN [it EXCEPT !.first = it.second, !.second = <<>>,
                    !.iteration = 0, !.new_list_requested = FALSE]
    ELSE it

\* Lines 153-154: yield the item under the index, if there is one.
IterYield(it) ==
    IF Len(it.first) > it.iteration
    THEN [it EXCEPT !.pc = "yield",
                    !.out = Append(it.out, ElementFromDict(it.first[it.iteration + 1]))]
    ELSE it

\* A loop that also stops once it has yielded elements_count items.
RECURSIVE IterLoopCounts(_, _)
IterLoopCounts(it, fault) ==
    IF ~(Len(it.first) > 0) \/ Len(it.out) >= elements_count
    THEN [it EXCEPT !.pc = "done"]
    ELSE LET a == IterPrefetch(it, fault)
         IN  IF a.pc = "failed" THEN a
             ELSE LET b == IterYield(IterSwap(a))
                  IN  IF b.pc = "yield" THEN b
                      ELSE IterLoopCounts(b, fault)

\* Lines 139-154: the while loop, run up to the next yield, the end of the
\* loop or a failed request.
RECURSIVE IterLoop(_, _)
IterLoop(it, fault) ==
    IF ~(Len(it.first) > 0)
    THEN [it EXCEPT !.pc = "done"]
    ELSE LET a == IterPrefetch(it, fault)
         IN  IF a.pc = "failed" THEN a
             ELSE LET b == IterYield(IterSwap(a))
                  IN  IF b.pc = "yield" THEN b
                      ELSE IterLoop(b, fault)

\* One next() on the generator.  The first one runs lines 130-138 before
\* the loop; a finished generator stays finished.
IterPull(it, fault) ==
    CASE it.pc = "new" ->
            IF FetchFails(it, fault)
            THEN [it EXCEPT !.pc = "failed", !.reqs = LogReq(it, 0)]
            ELSE IterLoop([it EXCEPT !.pc = "running",
                                     !.first = ListPage(0),
                                     !.reqs = LogReq(it, 0)], fault)
      [] it.pc = "yield" -> IterLoop([it EXCEPT !.pc = "running"], fault)
      [] OTHER -> it

IterFinished(it) == it.pc \in {"done", "failed"}

\* `for element in self': pull until the generator is finished.
RECURSIVE IterRun(_, _)
IterRun(it, fault) ==
    IF IterFinished(it) THEN it ELSE IterRun(IterPull(it, fault), fault)

----------------------------------------------------------------------------
\* Dataset.keys.

ElementGetId(element) == element.id

\* A keys() that takes the sentinel -1 for the default page.
KeysCallFirstPage(page, fault) ==
    [ok   |-> fault # 1,
     reqs |-> <<IF page = -1 THEN 0 ELSE page>>,
     data |-> IF fault # 1
              THEN [k \in 1..Len(ListPage(IF page = -1 THEN 0 ELSE page))
                      |-> ListPage(IF page = -1 THEN 0 ELSE page)[k].id]
              ELSE <<>>]

\* What a call of keys(page) does: the list requests it issues, whether it
\* returns, and the list it returns.  `fault' is the ordinal of the request
\* of this call that fails (0: none).
KeysCall(page, fault) ==
    IF page = -1
    THEN LET it == IterRun(IterNew, fault)
         IN  [ok   |-> it.pc = "done",
              reqs |-> [k \in 1..Len(it.reqs) |-> it.reqs[k].page],
              data |-> IF it.pc = "done"
                       THEN [k \in 1..Len(it.out) |-> ElementGetId(it.out[k])]
                       ELSE <<>>]
    ELSE [ok   |-> fault # 1,
          reqs |-> <<page>>,
          data |-> IF fault # 1
                   THEN [k \in 1..Len(ListPage(page)) |-> ListPage(page)[k].id]
                   ELSE <<>>]

----------------------------------------------------------------------------
\* SpecIter: generators and keys() over an unchanging remote collection.

Elem(i) ==
    [id |-> i, title |-> "t", description |-> "d", tags |-> <<"a">>,
     http_ref |-> "r", content |-> 0]

\* Page schedules: any sequence of at most MaxPages non-empty page lengths,
\* and, for every page size P, the collection sizes 0, 1, P-1, P, P+1, 2P
\* and 2P+7 served in pages of P.
Schedules ==
    UNION {[1..n -> 1..MaxPageLen] : n \in 0..MaxPages}

PagedSizes(P) == {0, 1, P - 1, P, P + 1, 2 * P, 2 * P + 7}

\* Lines 14-34: the fields of a Dataset the constructor sets, but for
\* elements_count.
InitFields ==
    /\ data = [url_prefix |-> "tok/ds", title |-> "T0", description |-> "D0",
               reference |-> "R0", tags |-> <<"g">>]
    /\ comments_count = 0
    /\ fs = [folder |-> FALSE, files |-> <<>>, content_folder |-> FALSE,
             content |-> <<>>]
    /\ last = [op |-> "init"]

InitDataset ==
    /\ InitFields
    /\ elements_count = 0

\* The remote collection and the generators over it.
InitCollection ==
    /\ \/ \E s \in Schedules :
            /\ pageLens = s
            /\ elements = [i \in 1..SeqSum(s) |-> Elem(i)]
       \/ \E P \in 1..MaxPageLen : \E n \in PagedSizes(P) :
            /\ pageLens = <<P>>
            /\ elements = [i \in 1..n |-> Elem(i)]
    /\ remoteData = [url_prefix |-> "tok/ds", title |-> "T0", description |-> "D0",
                     reference |-> "R0", tags |-> <<"g">>, comments_count |-> 0]
    /\ nextId = Len(elements) + 1
    /\ binary_interpreter = None
    /\ iters = [i \in IterIds |-> IterNew]

InitIter ==
    /\ InitCollection
    /\ InitDataset

\* What the consumer gets from a next() that takes the generator from `it'
\* to `it2': an item, the end of the sequence, or the exception of the
\* failed request.  A finished generator only signals the end.
PullOutcome(it, it2) ==
    CASE IterFinished(it) -> "StopIteration"
      [] it2.pc = "yield" -> "item"
      [] it2.pc = "done"  -> "StopIteration"
      [] OTHER            -> "error"

\* A next() where the cursor is kept on the Dataset, one for all generators.
IterNextShared(i) ==
    /\ \E fails \in BOOLEAN :
         LET it  == iters[i]
             it2 == IterPull(it, IF fails THEN Len(it.reqs) + 1 ELSE 0)
         IN  /\ iters' = [j \in IterIds |-> it2]
             /\ last' = [op |-> "next", iter |-> i,
                         outcome |-> PullOutcome(it, it2),
                         failed |-> fails /\ Len(it2.reqs) > Len(it.reqs)]
    /\ UNCHANGED <<remoteVars, localVars, fs>>

\* next() on generator i; the list request it issues, if it issues one,
\* fails or succeeds.  `failed' records that a request of this call failed.
IterNext(i) ==
    /\ \E fails \in BOOLEAN :
         LET it  == iters[i]
             it2 == IterPull(it, IF fails THEN Len(it.reqs) + 1 ELSE 0)
         IN  /\ iters' = [iters EXCEPT ![i] = it2]
             /\ last' = [op |-> "next", iter |-> i,
                         outcome |-> PullOutcome(it, it2),
                         failed |-> fails /\ Len(it2.reqs) > Len(it.reqs)]
    /\ UNCHANGED <<remoteVars, localVars, fs>>

\* next() on generator i when every list request succeeds.
IterNextOk(i) ==
    /\ LET it  == iters[i]
           it2 == IterPull(it, 0)
       IN  /\ iters' = [iters EXCEPT ![i] = it2]
           /\ last' = [op |-> "next", iter |-> i,
                       outcome |-> PullOutcome(it, it2), failed |-> FALSE]
    /\ UNCHANGED <<remoteVars, localVars, fs>>

\* keys(page), for the sentinel -1 and for the page indices of the schedule
\* and the two after them.
NumPagesBound == Len(elements) + 1

Keys ==
    \E page \in -1..NumPagesBound :
      \E fault \in 0..Len(KeysCall(page, 0).reqs) :
        LET r == KeysCall(page, fault)
        IN  /\ last' = [op |-> "keys", page |-> page, ok |-> r.ok,
                        reqs |-> r.reqs, data |-> r.data]
            /\ UNCHANGED <<remoteVars, localVars, fs, iters>>

NextIter == \E i \in IterIds : IterNext(i)

SpecIter == InitIter /\ [][NextIter]_vars

\* SpecIterLive: consumers that keep pulling, over a collection whose list
\* requests all succeed, from a Dataset built by from_dict (lines 70-78)
\* whose cached elements_count may be smaller or larger than the true count.
InitIterLive ==
    /\ InitCollection
    /\ InitFields
    /\ elements_count \in {0, Len(elements), Len(elements) + 1}

NextIterLive == \E i \in IterIds : IterNextOk(i)

\* A next() that resumes generator i, which has not finished.
IterAdvance(i) == ~IterFinished(iters[i]) /\ IterNextOk(i)

\* Each consumer keeps pulling: weak fairness of IterAdvance(i), written
\* with its enabling condition, which is that generator i has not finished
\* (a next() on an unfinished generator always changes the generator).
KeepsPulling(i) ==
    \/ []<>IterFinished(iters[i])
    \/ []<><<IterAdvance(i)>>_vars

SpecIterLive ==
    /\ InitIterLive
    /\ [][NextIterLive]_vars
    /\ \A i \in IterIds : KeepsPulling(i)

\* SpecKeys: calls of keys() over an unchanging remote collection.
NextKeys == Keys

SpecKeys == InitIter /\ [][NextKeys]_vars

----------------------------------------------------------------------------
\* The content interpreter (mldata.interpreters.interpreter.Interpreter):
\* a byte transform and its inverse.  Bytes are sequences of 0..255.

InterpreterCipher(bytes) == [k \in 1..Len(bytes) |-> (bytes[k] + 1) % 256]

InterpreterDecipher(bytes) == [k \in 1..Len(bytes) |-> (bytes[k] + 255) % 256]

----------------------------------------------------------------------------
\* The remote side: the element records and the dataset record.

HasElement(els, key) == \E k \in 1..Len(els) : els[k].id = key

ElementOf(els, key) == els[CHOOSE k \in 1..Len(els) : els[k].id = key]

\* POST datasets/{url_prefix}/elements: a record without content, under a new id.
RemotePost(els, id, meta) ==
    Append(els, [id |-> id, title |-> meta.title, description |-> meta.description,
                 tags |-> meta.tags, http_ref |-> meta.http_ref, content |-> <<>>])

\* DELETE datasets/{url_prefix}/elements/{id}.
RemoteDelete(els, key) == SelectSeq(els, LAMBDA e : e.id # key)

\* PUT of the content of element `key'.
RemotePutContent(els, key, bytes) ==
    [k \in 1..Len(els) |->
        IF els[k].id = key THEN [els[k] EXCEPT !.content = bytes] ELSE els[k]]

\* GET datasets/{url_prefix}: the dataset record; its elements_count is the
\* number of elements the dataset holds.
RemoteDataset(els) ==
    [url_prefix |-> remoteData.url_prefix, title |-> remoteData.title,
     description |-> remoteData.description, reference |-> remoteData.reference,
     tags |-> remoteData.tags, elements_count |-> Len(els),
     comments_count |-> remoteData.comments_count]

----------------------------------------------------------------------------
\* Element.set_content and Element.get_content (mldata.element.Element).

\* The bytes set_content(content, interpret) uploads.
ElementSetContent(content, interpret) ==
    IF interpret /\ binary_interpreter # None
    THEN InterpreterCipher(content)
    ELSE content

\* The bytes get_content(interpret) returns for the stored bytes.
ElementGetContent(stored, interpret) ==
    IF interpret /\ binary_interpreter # None
    THEN InterpreterDecipher(stored)
    ELSE stored

----------------------------------------------------------------------------
\* Dataset.__getitem__.

NoElement == [id |-> 0, title |-> "", description |-> "", tags |-> <<>>, http_ref |-> ""]

\* A lookup that lets a failed request through as it is.
DatasetGetItemPropagates(els, key, failed) ==
    IF failed
    THEN [get |-> "transport", outcome |-> "TransportError", exc |-> 0,
          element |-> NoElement]
    ELSE IF ~HasElement(els, key)
    THEN [get |-> "missing", outcome |-> "KeyError", exc |-> key, element |-> NoElement]
    ELSE [get |-> "ok", outcome |-> "Element", exc |-> 0,
          element |-> ElementFromDict(ElementOf(els, key))]

\* A lookup that returns an Element of nothing when the GET fails.
DatasetGetItemSwallows(els, key, failed) ==
    LET get == IF failed THEN "transport"
               ELSE IF HasElement(els, key) THEN "ok" ELSE "missing"
    IN  [get |-> get, outcome |-> "Element", exc |-> 0,
         element |-> IF get = "ok" THEN ElementFromDict(ElementOf(els, key))
                     ELSE NoElement]

\* `get' is what became of the GET: "ok", "missing" (no such element) or
\* "transport" (the request failed); `outcome', `exc' and `element' are what
\* the caller gets.
DatasetGetItem(els, key, failed) ==
    LET get == IF failed THEN "transport"
               ELSE IF HasElement(els, key) THEN "ok" ELSE "missing"
    IN  IF get # "ok"
        THEN [get |-> get, outcome |-> "KeyError", exc |-> key, element |-> NoElement]
        ELSE [get |-> get, outcome |-> "Element", exc |-> 0,
              element |-> ElementFromDict(ElementOf(els, key))]

----------------------------------------------------------------------------
\* Dataset.refresh: the local fields and counters after a refresh against
\* the remote elements `els'.

\* A refresh that leaves the element counter alone.
DatasetRefreshKeepsCount(els) ==
    LET dataset_data == RemoteDataset(els)
    IN  [elements_count |-> elements_count,
         comments_count |-> dataset_data.comments_count,
         data |-> [k \in {"url_prefix", "title", "description", "reference", "tags"}
                     |-> dataset_data[k]]]

DatasetRefresh(els) ==
    LET dataset_data == RemoteDataset(els)
    IN  [elements_count |-> dataset_data.elements_count,
         comments_count |-> dataset_data.comments_count,
         data |-> [k \in {"url_prefix", "title", "description", "reference", "tags"}
                     |-> dataset_data[k]]]

DatasetLocal ==
    [elements_count |-> elements_count, comments_count |-> comments_count,
     data |-> data]

----------------------------------------------------------------------------
\* Dataset.add_element.

\* The local files a content path can name.
PathKind(path) ==
    CASE path = "data.bin" -> "file"
      [] path = "some_dir" -> "dir"
      [] OTHER -> "absent"

FileBytes(path) == <<7>>

\* The bytes the caller means by `content'.
ContentBytes(content) ==
    IF content.kind = "path" THEN FileBytes(content.path) ELSE content.bytes

\* A preparation that skips a path it cannot read.
AddElementPrepareSkipsMissing(content) ==
    IF content.kind # "path"
    THEN [error |-> None, content |-> content.bytes]
    ELSE IF PathKind(content.path) # "file"
    THEN [error |-> None, content |-> <<>>]
    ELSE [error |-> None,
          content |-> IF binary_interpreter = None
                      THEN FileBytes(content.path)
                      ELSE InterpreterCipher(FileBytes(content.path))]

\* Lines 82-93: a content given as a path is checked, read and, when an
\* interpreter is configured, ciphered; bytes are taken as they are.
AddElementPrepare(content) ==
    IF content.kind # "path"
    THEN [error |-> None, content |-> content.bytes]
    ELSE IF PathKind(content.path) = "absent"
    THEN [error |-> "Exception", content |-> <<>>]
    ELSE IF PathKind(content.path) # "file"
    THEN [error |-> "OSError", content |-> <<>>]
    ELSE [error |-> None,
          content |-> IF binary_interpreter = None
                      THEN FileBytes(content.path)
                      ELSE InterpreterCipher(FileBytes(content.path))]

\* An add_element that attaches the content before it refreshes: request 2
\* is the GET of the new element, 3 the PUT of the content, 4 the GET of
\* refresh.
AddElementCallRefreshesLast(meta, content, interpret, fault) ==
    LET prepared == AddElementPrepare(content)
        posted   == RemotePost(elements, nextId, meta)
        got      == DatasetGetItem(posted, nextId, fault = 2)
        put      == RemotePutContent(posted, nextId,
                        ElementSetContent(prepared.content, interpret))
    IN  IF prepared.error # None
        THEN [elements |-> elements, nextId |-> nextId, id |-> 0,
              local |-> DatasetLocal, outcome |-> prepared.error, reqs |-> <<>>]
        ELSE IF fault = 1
        THEN [elements |-> elements, nextId |-> nextId, id |-> 0,
              local |-> DatasetLocal, outcome |-> "TransportError",
              reqs |-> <<"POST element">>]
        ELSE IF got.outcome # "Element"
        THEN [elements |-> posted, nextId |-> nextId + 1, id |-> nextId,
              local |-> DatasetLocal, outcome |-> got.outcome,
              reqs |-> <<"POST element", "GET element">>]
        ELSE IF fault = 3
        THEN [elements |-> posted, nextId |-> nextId + 1, id |-> nextId,
              local |-> DatasetLocal, outcome |-> "TransportError",
              reqs |-> <<"POST element", "GET element", "PUT content">>]
        ELSE [elements |-> put, nextId |-> nextId + 1, id |-> nextId,
              local |-> IF fault = 4 THEN DatasetLocal ELSE DatasetRefresh(put),
              outcome |-> IF fault = 4 THEN "TransportError" ELSE "ok",
              reqs |-> <<"POST element", "GET element", "PUT content",
                         "GET dataset">>]

\* One call of add_element.  `fault' is the ordinal of the remote request of
\* the call that fails (0: none): 1 the POST, 2 the GET of refresh, 3 the
\* GET of the new element, 4 the PUT of the content.  The result: the remote
\* elements, the next id and the local fields after the call, the id the
\* POST returned (0: none), how the call ended and the requests it issued.
AddElementCall(meta, content, interpret, fault) ==
    LET prepared == AddElementPrepare(content)
        posted   == RemotePost(elements, nextId, meta)
        got      == DatasetGetItem(posted, nextId, fault = 3)
        after    == [elements |-> posted, nextId |-> nextId + 1, id |-> nextId]
    IN  IF prepared.error # None
        THEN [elements |-> elements, nextId |-> nextId, id |-> 0,
              local |-> DatasetLocal, outcome |-> prepared.error, reqs |-> <<>>]
        ELSE IF fault = 1
        THEN [elements |-> elements, nextId |-> nextId, id |-> 0,
              local |-> DatasetLocal, outcome |-> "TransportError",
              reqs |-> <<"POST element">>]
        ELSE IF fault = 2
        THEN after @@ [local |-> DatasetLocal, outcome |-> "TransportError",
                       reqs |-> <<"POST element", "GET dataset">>]
        ELSE IF got.outcome # "Element"
        THEN after @@ [local |-> DatasetRefresh(posted), outcome |-> got.outcome,
                       reqs |-> <<"POST element", "GET dataset", "GET element">>]
        ELSE IF fault = 4
        THEN after @@ [local |-> DatasetRefresh(posted), outcome |-> "TransportError",
                       reqs |-> <<"POST element", "GET dataset", "GET element",
                                  "PUT content">>]
        ELSE [elements |-> RemotePutContent(posted, got.element.id,
                              ElementSetContent(prepared.content, interpret)),
              nextId |-> nextId + 1, id |-> got.element.id,
              local |-> DatasetRefresh(posted), outcome |-> "ok",
              reqs |-> <<"POST element", "GET dataset", "GET element", "PUT content">>]

----------------------------------------------------------------------------
\* Dataset.__delitem__: the DELETE fails when it is request `fault' or when
\* the element does not exist; refresh follows a DELETE that succeeded.

DelItemCall(key, fault) ==
    LET deleted == RemoteDelete(elements, key)
    IN  IF fault = 1 \/ ~HasElement(elements, key)
        THEN [elements |-> elements, local |-> DatasetLocal,
              outcome |-> "TransportError", reqs |-> <<"DELETE element">>]
        ELSE IF fault = 2
        THEN [elements |-> deleted, local |-> DatasetLocal,
              outcome |-> "TransportError",
              reqs |-> <<"DELETE element", "GET dataset">>]
        ELSE [elements |-> deleted, local |-> DatasetRefresh(deleted),
              outcome |-> "ok", reqs |-> <<"DELETE element", "GET dataset">>]

----------------------------------------------------------------------------
\* Spec: the dataset operations.

MaxElems == 2       \* elements ever created in the dataset

Metas ==
    {[title |-> "t1", description |-> "d1", tags |-> <<"a">>, http_ref |-> "r1"],
     [title |-> "t2", description |-> "d2", tags |-> <<"a", "b">>, http_ref |-> "r2"]}

Contents ==
    {[kind |-> "bytes", bytes |-> <<1>>, path |-> ""],
     [kind |-> "path", bytes |-> <<>>, path |-> "data.bin"],
     [kind |-> "path", bytes |-> <<>>, path |-> "missing.bin"],
     [kind |-> "path", bytes |-> <<>>, path |-> "some_dir"]}

ElementKeys == 1..(MaxElems + 1)

\* The url_prefix the remote record of the dataset may carry: the one the
\* Dataset was built with, or another spelling of it.
RemotePrefixes == {"tok/ds", "tok/DS"}

Init ==
    /\ elements = <<>>
    /\ pageLens = <<1>>
    /\ \E prefix \in RemotePrefixes :
         remoteData = [url_prefix |-> prefix, title |-> "T0", description |-> "D0",
                       reference |-> "R0", tags |-> <<"g">>, comments_count |-> 0]
    /\ nextId = 1
    /\ binary_interpreter \in {None, "shift"}
    /\ iters = [i \in IterIds |-> IterNew]
    /\ InitDataset

SetLocal(l) ==
    /\ data' = l.data
    /\ elements_count' = l.elements_count
    /\ comments_count' = l.comments_count

AddElement ==
    /\ nextId <= MaxElems
    /\ \E meta \in Metas, content \in Contents, interpret \in BOOLEAN, fault \in 0..4 :
         LET r == AddElementCall(meta, content, interpret, fault)
         IN  /\ elements' = r.elements
             /\ nextId' = r.nextId
             /\ SetLocal(r.local)
             /\ last' = [op |-> "add_element", meta |-> meta, content |-> content,
                         interpret |-> interpret, outcome |-> r.outcome,
                         id |-> r.id, reqs |-> r.reqs]
    /\ UNCHANGED <<pageLens, remoteData, binary_interpreter, fs, iters>>

GetItem ==
    /\ \E key \in ElementKeys, failed \in BOOLEAN :
         LET r == DatasetGetItem(elements, key, failed)
         IN  last' = [op |-> "getitem", key |-> key, failed |-> failed, get |-> r.get,
                      outcome |-> r.outcome, exc |-> r.exc, element |-> r.element]
    /\ UNCHANGED <<remoteVars, localVars, fs, iters>>

DelItem ==
    /\ \E key \in ElementKeys, fault \in 0..2 :
         LET r == DelItemCall(key, fault)
         IN  /\ elements' = r.elements
             /\ SetLocal(r.local)
             /\ last' = [op |-> "delitem", key |-> key, outcome |-> r.outcome,
                         reqs |-> r.reqs]
    /\ UNCHANGED <<pageLens, remoteData, nextId, binary_interpreter, fs, iters>>

Refresh ==
    /\ \E failed \in BOOLEAN :
         /\ SetLocal(IF failed THEN DatasetLocal ELSE DatasetRefresh(elements))
         /\ last' = [op |-> "refresh",
                     outcome |-> IF failed THEN "TransportError" ELSE "ok"]
    /\ UNCHANGED <<remoteVars, binary_interpreter, fs, iters>>

Next ==
    \/ AddElement
    \/ GetItem
    \/ DelItem
    \/ Refresh

Spec == Init /\ [][Next]_vars

----------------------------------------------------------------------------
\* SpecEdit: the setters and update() among the other operations, on a
\* dataset that holds elements, up to and including the first update().

\* Lines 54-64: a setter stores the value under its key of self.data.
DatasetSet(d, field, value) == [d EXCEPT ![field] = value]

\* Line 68: the body of the PATCH, every field but url_prefix.
UpdateBody(d) == [k \in (DOMAIN d) \ {"url_prefix"} |-> d[k]]

\* PATCH datasets/{url_prefix}: the record takes the fields of the body.
RemotePatch(record, body) ==
    [k \in DOMAIN record |-> IF k \in DOMAIN body THEN body[k] ELSE record[k]]

\* The value each setter is called with.
NewValues ==
    [title |-> "T1", description |-> "D1", reference |-> "R1",
     tags |-> <<"g", "h">>]

Setter(op, field) ==
    /\ data' = DatasetSet(data, field, NewValues[field])
    /\ last' = [op |-> op, field |-> field, value |-> NewValues[field],
                reqs |-> <<>>]
    /\ UNCHANGED <<remoteVars, elements_count, comments_count,
                   binary_interpreter, fs, iters>>

SetDescription == Setter("set_description", "description")

SetTitle == Setter("set_title", "title")

SetTags == Setter("set_tags", "tags")

SetReference == Setter("set_reference", "reference")

\* Lines 66-68: one PATCH of the local fields, which fails or succeeds.
Update ==
    /\ \E failed \in BOOLEAN :
         /\ remoteData' = IF failed THEN remoteData
                          ELSE RemotePatch(remoteData, UpdateBody(data))
         /\ last' = [op |-> "update",
                     outcome |-> IF failed THEN "TransportError" ELSE "ok",
                     reqs |-> <<"PATCH dataset">>, body |-> UpdateBody(data)]
    /\ UNCHANGED <<elements, pageLens, nextId, localVars, fs, iters>>

\* `for element in self', run to its end or to the request that fails.
Iterate ==
    /\ \E fault \in 0..Len(IterRun(IterNew, 0).reqs) :
         LET it == IterRun(IterNew, fault)
         IN  last' = [op |-> "iterate",
                      outcome |-> IF it.pc = "done" THEN "ok" ELSE "TransportError",
                      reqs |-> [k \in 1..Len(it.reqs) |-> it.reqs[k].page],
                      items |-> it.out]
    /\ UNCHANGED <<remoteVars, localVars, fs, iters>>

InitEdit ==
    /\ elements = [i \in 1..(MaxElems - 1) |-> [Elem(i) EXCEPT !.content = <<i>>]]
    /\ pageLens = <<1>>
    /\ remoteData = [url_prefix |-> "tok/ds", title |-> "T0", description |-> "D0",
                     reference |-> "R0", tags |-> <<"g">>, comments_count |-> 0]
    /\ nextId = MaxElems
    /\ binary_interpreter = None
    /\ iters = [i \in IterIds |-> IterNew]
    /\ InitDataset

\* No update() has been issued yet.
BeforeUpdate == last.op # "update"

NextEdit ==
    \/ BeforeUpdate /\ SetTitle
    \/ BeforeUpdate /\ SetDescription
    \/ BeforeUpdate /\ SetTags
    \/ BeforeUpdate /\ SetReference
    \/ BeforeUpdate /\ Update
    \/ BeforeUpdate /\ AddElement
    \/ BeforeUpdate /\ DelItem
    \/ BeforeUpdate /\ GetItem
    \/ BeforeUpdate /\ Keys
    \/ BeforeUpdate /\ Iterate
    \/ BeforeUpdate /\ Refresh

SpecEdit == InitEdit /\ [][NextEdit]_vars

----------------------------------------------------------------------------
\* Dataset.save_to_folder.  The filesystem is the export folder: whether it
\* exists, its metadata files (file name -> what was written), whether its
\* content folder exists, and the content files (file name -> bytes).

NoExtension == [given |-> FALSE, chars |-> <<>>]

\* Lines 181-182: a leading dot of the extension is dropped.
StripDot(elements_extension) ==
    IF elements_extension.given /\ elements_extension.chars # <<>>
       /\ Head(elements_extension.chars) = "."
    THEN [elements_extension EXCEPT !.chars = Tail(@)]
    ELSE elements_extension

\* A file name that drops the extension.
FileNameIgnoresExtension(id, elements_extension) ==
    [id |-> id, dotted |-> FALSE, ext |-> <<>>]

\* Lines 190-193: "<id>" or "<id>.<extension>".
FileName(id, elements_extension) ==
    [id |-> id, dotted |-> elements_extension.given, ext |-> elements_extension.chars]

\* metadata[key] = value on a dict that keeps insertion order.
DictSet(d, key, value) ==
    IF \E k \in 1..Len(d) : d[k].key = key
    THEN [k \in 1..Len(d) |-> IF d[k].key = key THEN [key |-> key, value |-> value] ELSE d[k]]
    ELSE Append(d, [key |-> key, value |-> value])

\* Lines 188-201: the metadata index of the iterated elements.
RECURSIVE CollectMetadata(_, _, _)
CollectMetadata(items, elements_extension, metadata) ==
    IF items = <<>> THEN metadata
    ELSE LET element == Head(items)
         IN  CollectMetadata(Tail(items), elements_extension,
                 DictSet(metadata, FileName(ElementGetId(element), elements_extension),
                         [id |-> ElementGetId(element), title |-> element.title,
                          description |-> element.description,
                          http_ref |-> element.http_ref, tags |-> element.tags]))

\* ";".join(tags), as the sequence of its pieces.
RECURSIVE JoinTags(_)
JoinTags(tags) ==
    IF tags = <<>> THEN <<>>
    ELSE IF Len(tags) = 1 THEN <<tags[1]>>
    ELSE <<tags[1], ";">> \o JoinTags(Tail(tags))

\* __save_json: the mapping, in order.
SaveJson(metadata) == [name |-> "metadata.json", text |-> metadata]

\* __save_csv: the header row and one row per entry.
SaveCsv(metadata) ==
    [name |-> "metadata.csv",
     text |-> <<<<"file_name", "id", "title", "description", "http_ref", "tags">>>>
              \o [k \in 1..Len(metadata) |->
                    <<metadata[k].key, metadata[k].value.id, metadata[k].value.title,
                      metadata[k].value.description, metadata[k].value.http_ref,
                      JoinTags(metadata[k].value.tags)>>]]

FormatSaver(metadata_format, metadata) ==
    IF metadata_format = "csv" THEN SaveCsv(metadata) ELSE SaveJson(metadata)

\* A second pass that asks for the list again before every entry.
RECURSIVE FetchContentsWalksAgain(_, _, _, _, _)
FetchContentsWalksAgain(metadata, k, n, fault, acc) ==
    IF k > Len(metadata) THEN [acc EXCEPT !.outcome = "ok"]
    ELSE LET id     == metadata[k].value.id
             got    == DatasetGetItem(elements, id, fault = n + 1)
             lstReq == [req |-> "GET elements", arg |-> 0, ok |-> TRUE]
             getReq == [req |-> "GET element", arg |-> id, ok |-> got.get = "ok"]
             conReq == [req |-> "GET content", arg |-> id, ok |-> fault # n + 2]
             binary_content == ElementGetContent(ElementOf(elements, id).content, FALSE)
         IN  IF got.outcome # "Element"
             THEN [acc EXCEPT !.outcome = got.outcome, !.entry = k,
                              !.reqs = @ \o <<lstReq, getReq>>]
             ELSE IF fault = n + 2
             THEN [acc EXCEPT !.outcome = "TransportError", !.entry = k,
                              !.reqs = @ \o <<lstReq, getReq, conReq>>]
             ELSE FetchContentsWalksAgain(metadata, k + 1, n + 2, fault,
                      [acc EXCEPT !.reqs = @ \o <<lstReq, getReq, conReq>>,
                                  !.written = Append(@, metadata[k].key),
                                  !.content = (metadata[k].key :> binary_content) @@ @])

\* Lines 216-222 from entry k on: the keyed fetch of the element, the fetch
\* of its content without interpretation, the write of the file.  `n' is the
\* number of requests the call has issued so far.
RECURSIVE FetchContents(_, _, _, _, _)
FetchContents(metadata, k, n, fault, acc) ==
    IF k > Len(metadata) THEN [acc EXCEPT !.outcome = "ok"]
    ELSE LET id     == metadata[k].value.id
             got    == DatasetGetItem(elements, id, fault = n + 1)
             getReq == [req |-> "GET element", arg |-> id, ok |-> got.get = "ok"]
             conReq == [req |-> "GET content", arg |-> id, ok |-> fault # n + 2]
             binary_content == ElementGetContent(ElementOf(elements, id).content, FALSE)
         IN  IF got.outcome # "Element"
             THEN [acc EXCEPT !.outcome = got.outcome, !.entry = k,
                              !.reqs = Append(@, getReq)]
             ELSE IF fault = n + 2
             THEN [acc EXCEPT !.outcome = "TransportError", !.entry = k,
                              !.reqs = @ \o <<getReq, conReq>>]
             ELSE FetchContents(metadata, k + 1, n + 2, fault,
                      [acc EXCEPT !.reqs = @ \o <<getReq, conReq>>,
                                  !.written = Append(@, metadata[k].key),
                                  !.content = (metadata[k].key :> binary_content) @@ @])

\* One call of save_to_folder.  `fault' is the ordinal of the remote request
\* of the call that fails (0: none).  The result: the filesystem after the
\* call, how the call ended, the requests it issued, the directories and
\* files it created (`io'), the index it built, the content files it wrote
\* and the index entry whose fetch failed (0: none).
SaveToFolderCall(metadata_format, elements_extension, fault) ==
    LET \* lines 171-174
        fs1  == [fs EXCEPT !.folder = TRUE]
        io1  == IF fs.folder THEN <<>> ELSE <<"mkdir folder">>
        ext  == StripDot(elements_extension)
        \* lines 188-201
        it   == IterRun(IterNew, fault)
        listReqs == [k \in 1..Len(it.reqs) |->
                        [req |-> "GET elements", arg |-> it.reqs[k].page,
                         ok |-> ~(it.pc = "failed" /\ k = Len(it.reqs))]]
        metadata == CollectMetadata(it.out, ext, <<>>)
        \* lines 203-210
        file == FormatSaver(metadata_format, metadata)
        fs2  == [fs1 EXCEPT !.files = (file.name :> file.text) @@ @,
                            !.content_folder = TRUE]
        io2  == io1 \o <<"write metadata">>
                    \o (IF fs.content_folder THEN <<>> ELSE <<"mkdir content">>)
        \* lines 214-222
        p2   == FetchContents(metadata, 1, Len(it.reqs), fault,
                    [outcome |-> "", entry |-> 0, reqs |-> listReqs,
                     written |-> <<>>, content |-> fs.content])
    IN  IF metadata_format \notin {"csv", "json"}
        THEN [fs |-> fs1, outcome |-> "Exception", reqs |-> <<>>, io |-> io1,
              metadata |-> <<>>, written |-> <<>>, entry |-> 0]
        ELSE IF it.pc = "failed"
        THEN [fs |-> fs1, outcome |-> "TransportError", reqs |-> listReqs, io |-> io1,
              metadata |-> <<>>, written |-> <<>>, entry |-> 0]
        ELSE [fs |-> [fs2 EXCEPT !.content = p2.content], outcome |-> p2.outcome,
              reqs |-> p2.reqs,
              io |-> io2 \o [k \in 1..Len(p2.written) |-> "write content"],
              metadata |-> metadata, written |-> p2.written, entry |-> p2.entry]

Formats == {"json", "csv", "xml"}

Extensions ==
    {NoExtension, [given |-> TRUE, chars |-> <<"p">>],
     [given |-> TRUE, chars |-> <<".", "p">>]}

\* The model follows an export and a second export into the same folder, no
\* third one in a row (`again' marks the second).
SaveToFolder ==
    /\ ~(last.op = "save_to_folder" /\ last.again)
    /\ \E metadata_format \in Formats, elements_extension \in Extensions :
       \E fault \in 0..Len(SaveToFolderCall("json", NoExtension, 0).reqs) :
         LET r == SaveToFolderCall(metadata_format, elements_extension, fault)
         IN  /\ fs' = r.fs
             /\ last' = [op |-> "save_to_folder", metadata_format |-> metadata_format,
                         elements_extension |-> elements_extension,
                         outcome |-> r.outcome, reqs |-> r.reqs, io |-> r.io,
                         metadata |-> r.metadata, written |-> r.written,
                         entry |-> r.entry,
                         again |-> last.op = "save_to_folder"]
    /\ UNCHANGED <<remoteVars, localVars, iters>>

\* SpecExport: exports of an unchanging remote dataset into one folder.
StoredElem(i) ==
    [id |-> 10 * i, title |-> <<"title", i>>, description |-> <<"description", i>>,
     tags |-> [k \in 1..i |-> <<"tag", k>>], http_ref |-> <<"ref", i>>,
     content |-> <<20 + i>>]

InitExport ==
    /\ \E n \in 0..MaxElems : elements = [i \in 1..n |-> StoredElem(i)]
    /\ pageLens \in {<<1>>, <<2>>}
    /\ remoteData = [url_prefix |-> "tok/ds", title |-> "T0", description |-> "D0",
                     reference |-> "R0", tags |-> <<"g">>, comments_count |-> 0]
    /\ nextId = 10 * (Len(elements) + 1)
    /\ binary_interpreter \in {None, "shift"}
    /\ iters = [i \in IterIds |-> IterNew]
    /\ InitDataset

NextExport == SaveToFolder

SpecExport == InitExport /\ [][NextExport]_vars

----------------------------------------------------------------------------
\* The properties.

\* The concatenation of the pages a generator fetched, in the order of its
\* requests.
RECURSIVE FetchedPages(_)
FetchedPages(reqs) ==
    IF reqs = <<>> THEN <<>>
    ELSE FetchedPages(SubSeq(reqs, 1, Len(reqs) - 1)) \o ListPage(reqs[Len(reqs)].page)

IdsOf(items) == [k \in 1..Len(items) |-> items[k].id]

\* C1: over an unchanging collection, a generator consumed to its end has
\* yielded exactly the N summaries of the collection, in the order of the
\* concatenation of the pages it fetched, none twice and none missing.
C1_IterationComplete ==
    \A i \in IterIds :
        iters[i].pc = "done" =>
            LET it == iters[i]
            IN  /\ Len(it.out) = Len(elements)
                /\ IdsOf(it.out) = IdsOf(FetchedPages(it.reqs))
                /\ it.out = [k \in 1..Len(elements) |-> ElementFromDict(elements[k])]
                /\ \A a, b \in 1..Len(it.out) :
                       a # b => it.out[a].id # it.out[b].id
                /\ \A k \in 1..Len(elements) :
                       \E a \in 1..Len(it.out) : it.out[a].id = elements[k].id

\* A generator consumed to its end over 2P+7 summaries in pages of P = 3.
C1_Witness ==
    /\ iters["A"].pc = "done"
    /\ pageLens = <<3>>
    /\ Len(iters["A"].out) = 13
    /\ Len(iters["A"].reqs) = 6

\* The ids keys(0), keys(1), ... return up to the first empty page.
RECURSIVE KeysOfPagesFrom(_)
KeysOfPagesFrom(p) ==
    IF KeysCall(p, 0).data = <<>> THEN <<>>
    ELSE KeysCall(p, 0).data \o KeysOfPagesFrom(p + 1)

\* C10: keys(-1) returns the ids of all elements in iteration order, which
\* is the concatenation of keys(0), keys(1), ... up to the first empty
\* page; keys(p) for p # -1 issues the one list request for page p and
\* returns the ids of that page in page order.
C10_Keys ==
    (last.op = "keys" /\ last.ok) =>
        IF last.page = -1
        THEN /\ last.data = KeysOfPagesFrom(0)
             /\ last.data = IdsOf(elements)
        ELSE /\ last.reqs = <<last.page>>
             /\ last.data = IdsOf(ListPage(last.page))
             /\ last.data = [k \in 1..Len(last.data) |->
                               elements[PageStart(last.page) + k].id]

\* keys(-1) has returned the ids of a collection of several pages.
C10_Witness ==
    /\ last.op = "keys" /\ last.ok /\ last.page = -1
    /\ Len(last.reqs) = 4
    /\ Len(last.data) = 7

\* What the caller of a lookup observes: how it ended and the key the
\* KeyError carries.
Observed(l) == <<l.outcome, l.exc>>

\* C2: with an interpreter configured and interpret left at its default, a
\* successful add_element followed by a lookup of the returned id gives an
\* element with the title, description, tags and http_ref that were passed,
\* whose content read back with interpretation equals the original bytes,
\* for a content given as bytes and for one given as a path.
C2_CreateRoundTrip ==
    (last.op = "add_element" /\ last.outcome = "ok" /\ last.interpret
        /\ binary_interpreter # None) =>
        LET got == DatasetGetItem(elements, last.id, FALSE)
        IN  /\ got.outcome = "Element"
            /\ got.element.title = last.meta.title
            /\ got.element.description = last.meta.description
            /\ got.element.tags = last.meta.tags
            /\ got.element.http_ref = last.meta.http_ref
            /\ ElementGetContent(ElementOf(elements, last.id).content, TRUE)
                   = ContentBytes(last.content)

\* C4: a lookup ends in KeyError carrying the key whenever the GET failed,
\* be it for a missing element or for the transport, and returns the
\* Element of the remote record exactly when the GET succeeded.
C4_LookupNotFound ==
    last.op = "getitem" =>
        LET getOk == ~last.failed /\ HasElement(elements, last.key)
        IN  /\ ~getOk => (last.outcome = "KeyError" /\ last.exc = last.key)
            /\ getOk => (last.outcome = "Element"
                         /\ last.element = ElementFromDict(ElementOf(elements, last.key)))
            /\ (last.outcome = "Element") <=> getOk

\* The lookup of an existing element failed for the transport.
C4_Witness ==
    /\ last.op = "getitem" /\ last.failed
    /\ HasElement(elements, last.key)
    /\ last.outcome = "KeyError"

\* C5: what the caller observes of the lookup of a missing element differs
\* from what it observes when the same lookup fails for the transport.
C5_NotFoundDistinct ==
    [][(/\ last.op = "getitem" /\ last.get = "missing"
        /\ last'.op = "getitem" /\ last'.get = "transport"
        /\ last'.key = last.key)
       => Observed(last') # Observed(last)]_vars

\* C6, as claimed: after add_element has added an element the cached
\* elements_count differs from the number of remote elements, and after a
\* refresh() of the caller it equals it.
C6_StaleAfterAdd ==
    /\ (last.op = "add_element" /\ last.id # 0) => elements_count # Len(elements)
    /\ (last.op = "refresh" /\ last.outcome = "ok") => elements_count = Len(elements)

\* C6, amended: once add_element has added an element and its own refresh
\* has succeeded, as in every add_element that returns, the cached
\* elements_count equals the number of remote elements; so it does after a
\* refresh() of the caller.
C6_CountAfterAdd ==
    /\ (last.op = "add_element" /\ last.id # 0 /\ Len(last.reqs) >= 3)
           => elements_count = Len(elements)
    /\ (last.op = "add_element" /\ last.outcome = "ok")
           => (last.id # 0 /\ elements_count = Len(elements))
    /\ (last.op = "refresh" /\ last.outcome = "ok") => elements_count = Len(elements)

\* add_element has returned the second element of the dataset.
C6_Witness ==
    /\ last.op = "add_element" /\ last.outcome = "ok"
    /\ Len(elements) = 2
    /\ elements_count = 2

\* C9: add_element with a path that names no existing file ends in an error
\* without a remote request: nothing is created remotely, there is no
\* refresh, and the local fields and counters stay as they were.
C9_MissingFileFailsFirst ==
    [][(/\ last'.op = "add_element"
        /\ last'.content.kind = "path"
        /\ PathKind(last'.content.path) # "file")
       => /\ last'.outcome \in {"Exception", "OSError"}
          /\ last'.reqs = <<>>
          /\ UNCHANGED <<elements, nextId, remoteData, data, elements_count,
                         comments_count>>]_vars

\* add_element was called with a path that does not exist, on a dataset
\* that holds an element.
C9_Witness ==
    /\ last.op = "add_element"
    /\ last.content.kind = "path" /\ PathKind(last.content.path) = "absent"
    /\ last.outcome = "Exception"
    /\ Len(elements) = 1

\* The name the export gives the file of element e: "<id>", or
\* "<id>.<extension>" with the extension without its leading dot.
ExpectedName(e, elements_extension) ==
    IF ~elements_extension.given
    THEN [id |-> e.id, dotted |-> FALSE, ext |-> <<>>]
    ELSE [id |-> e.id, dotted |-> TRUE,
          ext |-> IF elements_extension.chars # <<>>
                     /\ elements_extension.chars[1] = "."
                  THEN SubSeq(elements_extension.chars, 2, Len(elements_extension.chars))
                  ELSE elements_extension.chars]

MetadataName(metadata_format) ==
    IF metadata_format = "csv" THEN "metadata.csv" ELSE "metadata.json"

\* The index l.metadata has one entry per remote element, in order, under
\* the element's file name and with its id, title, description, http_ref
\* and tags.
IndexMatchesRemote(l) ==
    /\ Len(l.metadata) = Len(elements)
    /\ \A k \in 1..Len(elements) :
          /\ l.metadata[k].key = ExpectedName(elements[k], l.elements_extension)
          /\ l.metadata[k].value.id = elements[k].id
          /\ l.metadata[k].value.title = elements[k].title
          /\ l.metadata[k].value.description = elements[k].description
          /\ l.metadata[k].value.http_ref = elements[k].http_ref
          /\ l.metadata[k].value.tags = elements[k].tags

\* The metadata file of the format of call l holds the entries of the index.
MetadataFileWritten(f, l) ==
    /\ MetadataName(l.metadata_format) \in DOMAIN f.files
    /\ LET text == f.files[MetadataName(l.metadata_format)]
       IN  IF l.metadata_format = "json"
           THEN text = l.metadata
           ELSE /\ Len(text) = Len(l.metadata) + 1
                /\ \A k \in 1..Len(l.metadata) :
                      /\ text[k + 1][1] = l.metadata[k].key
                      /\ text[k + 1][2] = l.metadata[k].value.id
                      /\ text[k + 1][3] = l.metadata[k].value.title
                      /\ text[k + 1][4] = l.metadata[k].value.description
                      /\ text[k + 1][5] = l.metadata[k].value.http_ref
                      /\ text[k + 1][6] = JoinTags(l.metadata[k].value.tags)

IndexNames(l, n) == {l.metadata[k].key : k \in 1..n}

\* The content file of every one of the first n index entries holds the
\* bytes the remote side stores for the element.
ContentFilesRaw(f, l, n) ==
    \A k \in 1..n :
        /\ l.metadata[k].key \in DOMAIN f.content
        /\ f.content[l.metadata[k].key] = ElementOf(elements, l.metadata[k].value.id).content

\* A content fetch of call l failed.
ContentFetchFailed(l) ==
    \E k \in 1..Len(l.reqs) :
        l.reqs[k].req \in {"GET element", "GET content"} /\ ~l.reqs[k].ok

\* C3, as claimed: after a successful export the index has one entry per
\* remote element under the element's file name, and the content folder
\* holds the files of the index entries and no other, each with the bytes
\* stored remotely.
C3_ExportExact ==
    (last.op = "save_to_folder" /\ last.outcome = "ok") =>
        /\ IndexMatchesRemote(last)
        /\ MetadataFileWritten(fs, last)
        /\ DOMAIN fs.content = IndexNames(last, Len(last.metadata))
        /\ ContentFilesRaw(fs, last, Len(last.metadata))

\* C3, amended: after a successful export the index has one entry per
\* remote element under the element's file name, the content folder holds a
\* file for every index entry with the bytes stored remotely, the call wrote
\* one file per index entry, and the folder holds no file beyond those and
\* the ones it held before the call.
C3_ExportConsistent ==
    [][(last'.op = "save_to_folder" /\ last'.outcome = "ok") =>
        /\ IndexMatchesRemote(last')
        /\ MetadataFileWritten(fs', last')
        /\ ContentFilesRaw(fs', last', Len(last'.metadata))
        /\ last'.written = [k \in 1..Len(last'.metadata) |-> last'.metadata[k].key]
        /\ DOMAIN fs'.content
               = DOMAIN fs.content \cup IndexNames(last', Len(last'.metadata))]_vars

\* A successful export of two elements, under an extension given with its
\* dot, with an interpreter configured, into a folder that held the files
\* of an earlier export.
C3_Witness ==
    /\ last.op = "save_to_folder" /\ last.outcome = "ok"
    /\ last.elements_extension.given /\ last.elements_extension.chars[1] = "."
    /\ Len(last.metadata) = 2
    /\ binary_interpreter # None
    /\ Cardinality(DOMAIN fs.content) = 4

\* C7: save_to_folder with a format other than json and csv fails before
\* any I/O: it creates no directory, writes no file, issues no request.
C7_FailFast ==
    (last.op = "save_to_folder" /\ last.metadata_format \notin {"json", "csv"}) =>
        /\ last.outcome = "Exception"
        /\ last.io = <<>>
        /\ last.reqs = <<>>

\* C8, as claimed: when a content fetch of the second pass fails the call
\* ends in an error, the metadata file holds every index entry, and the
\* content folder holds the files of the entries before the failing one and
\* no other.
C8_PartialExact ==
    (last.op = "save_to_folder" /\ ContentFetchFailed(last)) =>
        /\ last.outcome \in {"KeyError", "TransportError"}
        /\ IndexMatchesRemote(last)
        /\ MetadataFileWritten(fs, last)
        /\ DOMAIN fs.content = IndexNames(last, last.entry - 1)

\* C8, amended: when a content fetch of the second pass fails the call ends
\* in an error, the metadata file holds every index entry, the call has
\* written the files of the entries before the failing one, with the bytes
\* stored remotely, and the content folder holds no file beyond those and
\* the ones it held before the call.
C8_PartialExport ==
    [][(last'.op = "save_to_folder" /\ ContentFetchFailed(last')) =>
        /\ last'.outcome \in {"KeyError", "TransportError"}
        /\ last'.entry \in 1..Len(last'.metadata)
        /\ IndexMatchesRemote(last')
        /\ MetadataFileWritten(fs', last')
        /\ last'.written = [k \in 1..(last'.entry - 1) |-> last'.metadata[k].key]
        /\ ContentFilesRaw(fs', last', last'.entry - 1)
        /\ DOMAIN fs'.content
               = DOMAIN fs.content \cup IndexNames(last', last'.entry - 1)]_vars

\* The fetch for the second entry of an export failed.
C8_Witness ==
    /\ last.op = "save_to_folder" /\ ContentFetchFailed(last)
    /\ last.entry = 2
    /\ Len(last.written) = 1

----------------------------------------------------------------------------
\* The generator: prefetch timing, request order, termination, failures
\* and independence.

\* C11: the request for the page after a non-empty page of length L is
\* issued when the item at index L \div 2 of that page has been handed out
\* and before the page is exhausted; no page index is requested twice; and
\* the generator holds the current page and, once requested, the one after
\* it, and no other.
C11_PrefetchTiming ==
    \A i \in IterIds :
        LET it == iters[i]
        IN  /\ \A k \in 2..Len(it.reqs) :
                   LET cur == it.reqs[k].page - 1
                       L   == Len(ListPage(cur))
                   IN  /\ L > 0
                       /\ it.reqs[k].at >= PageStart(cur) + (L \div 2) + 1
                       /\ it.reqs[k].at <= PageStart(cur) + L
            /\ \A a, b \in 1..Len(it.reqs) :
                   a # b => it.reqs[a].page # it.reqs[b].page
            /\ it.pc = "yield" =>
                   IF it.new_list_requested
                   THEN /\ it.first = ListPage(it.page - 1)
                        /\ it.second = ListPage(it.page)
                   ELSE /\ it.first = ListPage(it.page)
                        /\ it.second = <<>>
            /\ it.pc = "done" => it.first = <<>> /\ it.second = <<>>

\* A generator in the middle of the third page of 3, which asked for the
\* second page after two items and for the third after five.
C11_Witness ==
    /\ pageLens = <<3>>
    /\ iters["A"].pc = "yield"
    /\ Len(iters["A"].reqs) = 3
    /\ iters["A"].reqs[2].at = 2
    /\ iters["A"].reqs[3].at = 5
    /\ Len(iters["A"].out) = 7

\* The number of non-empty pages of the collection.
NonEmptyPages == Cardinality({p \in 0..Len(elements) : ListPage(p) # <<>>})

\* C12: a generator requests the pages 0, 1, 2, ... in this order, each
\* once, requests nothing after it has received an empty page, and has
\* issued m + 1 requests at its end over m non-empty pages.
C12_RequestOrder ==
    \A i \in IterIds :
        LET it == iters[i]
        IN  /\ \A k \in 1..Len(it.reqs) : it.reqs[k].page = k - 1
            /\ \A k \in 1..(Len(it.reqs) - 1) : ListPage(it.reqs[k].page) # <<>>
            /\ it.pc = "done" => Len(it.reqs) = NonEmptyPages + 1

\* A generator at its end over three non-empty pages of 1, 2 and 3 items.
C12_Witness ==
    /\ pageLens = <<1, 2, 3>>
    /\ iters["A"].pc = "done"
    /\ Len(iters["A"].reqs) = 4
    /\ Len(iters["A"].out) = 6

\* C13: when every list request succeeds, a consumer that keeps pulling
\* reaches the end of the sequence; the generator ends on an empty current
\* buffer, with all the items yielded, whatever elements_count holds; over
\* an empty collection it yields nothing.
C13_Termination ==
    /\ \A i \in IterIds : <>(iters[i].pc = "done")
    /\ [](\A i \in IterIds :
             iters[i].pc = "done" =>
                 /\ iters[i].first = <<>>
                 /\ Len(iters[i].out) = Len(elements)
                 /\ (Len(elements) = 0 => iters[i].out = <<>>))

\* A generator at its end over 13 items in pages of 3 while elements_count
\* holds 0, the other generator still running.
C13_Witness ==
    /\ iters["A"].pc = "done"
    /\ Len(iters["A"].out) = 13
    /\ Len(iters["A"].reqs) = 6
    /\ elements_count = 0
    /\ iters["B"].pc = "yield"

\* Whether `pre' is a prefix of `full'.
IsPrefix(pre, full) ==
    /\ Len(pre) <= Len(full)
    /\ pre = SubSeq(full, 1, Len(pre))

\* C14: a next() whose list request fails raises to the consumer and
\* yields nothing; the items yielded up to then are a prefix of the pages
\* fetched before the failed request; and the failed generator yields
\* nothing more and issues no more request.
C14_FetchFailure ==
    [][\A i \in IterIds :
          /\ (last'.op = "next" /\ last'.iter = i /\ last'.failed) =>
                 /\ last'.outcome = "error"
                 /\ iters'[i].pc = "failed"
                 /\ iters'[i].out = iters[i].out
                 /\ Len(iters'[i].reqs) = Len(iters[i].reqs) + 1
                 /\ IsPrefix(iters'[i].out,
                             FetchedPages(SubSeq(iters'[i].reqs, 1,
                                                 Len(iters[i].reqs))))
          /\ iters[i].pc = "failed" =>
                 /\ iters'[i] = iters[i]
                 /\ (last'.op = "next" /\ last'.iter = i) =>
                        last'.outcome = "StopIteration"]_vars

\* A generator whose request for the third page failed after it had
\* yielded items of the first two, pulled again.
C14_Witness ==
    /\ iters["A"].pc = "failed"
    /\ Len(iters["A"].reqs) = 3
    /\ Len(iters["A"].out) >= 3
    /\ last.op = "next" /\ last.iter = "A" /\ last.outcome = "StopIteration"

\* The generator after n calls of next() when it is the only one and no
\* request fails.
RECURSIVE SoloAfter(_)
SoloAfter(n) == IF n <= 0 THEN IterNew ELSE IterPull(SoloAfter(n - 1), 0)

\* C20: a next() on one of several generators leaves the others as they
\* are, and each generator advanced in any interleaving is, as long as
\* none of its requests failed, where it would be were it alone after as
\* many calls of next(): its buffers, index, page counter, flag, requests
\* and items are its own; at its end it has yielded the whole collection in
\* page order.
C20_IndependentIterators ==
    [][\A i \in IterIds :
          LET it == iters'[i]
          IN  /\ (last'.op = "next" /\ last'.iter # i) => it = iters[i]
              /\ it.pc # "failed" =>
                     /\ it = SoloAfter(Len(it.out) + IF it.pc = "done" THEN 1 ELSE 0)
                     /\ IsPrefix(it.out,
                                 [k \in 1..Len(elements) |->
                                     ElementFromDict(elements[k])])
                     /\ it.pc = "done" => Len(it.out) = Len(elements)]_vars

\* One generator at its end over seven items while the other has yielded
\* two and is still on the first page.
C20_Witness ==
    /\ Len(elements) = 7
    /\ iters["A"].pc = "done"
    /\ iters["B"].pc = "yield"
    /\ Len(iters["B"].out) = 2
    /\ Len(iters["B"].reqs) = 1

----------------------------------------------------------------------------
\* add_element: the order of its remote steps, and the cipher.

AddElementSteps == <<"POST element", "GET dataset", "GET element", "PUT content">>

\* The content the remote side holds for element `key' (<<>>: none).
StoredContent(els, key) ==
    IF HasElement(els, key) THEN ElementOf(els, key).content ELSE <<>>

\* C15: add_element issues POST, the GET of refresh, the GET of the new
\* element and the PUT of the content in this order and stops at the first
\* that fails, which it reports to the caller: after a failed POST nothing
\* has changed; after a failed refresh the record exists without content
\* and the local fields are as before; after a failed element GET or PUT
\* the local counter is refreshed and no content is attached; and only a
\* call that returns has attached the content.
C15_AddElementOrder ==
    [][last'.op = "add_element" =>
          LET n      == Len(last'.reqs)
              ok     == last'.outcome = "ok"
              reached(k) == n > k \/ (n = k /\ ok)
          IN  /\ last'.reqs = SubSeq(AddElementSteps, 1, n)
              /\ ok => n = 4
              /\ IF reached(1)
                 THEN /\ Len(elements') = Len(elements) + 1
                      /\ HasElement(elements', last'.id)
                      /\ ~HasElement(elements, last'.id)
                 ELSE /\ elements' = elements
                      /\ last'.id = 0
              /\ IF reached(2)
                 THEN elements_count' = Len(elements')
                 ELSE <<data, elements_count, comments_count>>' =
                      <<data, elements_count, comments_count>>
              /\ IF ok
                 THEN StoredContent(elements', last'.id) # <<>>
                 ELSE StoredContent(elements', last'.id) = <<>>]_vars

\* An add_element whose refresh failed: the record is there without
\* content and the local counter was not refreshed.
C15_Witness ==
    /\ last.op = "add_element"
    /\ last.outcome = "TransportError"
    /\ last.reqs = <<"POST element", "GET dataset">>
    /\ Len(elements) = 1
    /\ elements[1].content = <<>>
    /\ elements_count = 0

\* C17: the content an add_element uploads is ciphered only when an
\* interpreter is configured and interpret is true; otherwise the bytes
\* stored are the caller's bytes, or the bytes of the caller's file, as
\* they are.
C17_CipherOnlyWhenInterpret ==
    (last.op = "add_element" /\ last.outcome = "ok"
        /\ ~(last.interpret /\ binary_interpreter # None)) =>
            StoredContent(elements, last.id) = ContentBytes(last.content)

----------------------------------------------------------------------------
\* refresh and the local fields.

DatasetFields == {"title", "description", "reference", "tags"}

\* C18: a refresh that succeeds sets the local counters and the title,
\* description, reference and tags to those of the remote record and
\* leaves url_prefix as it was, whatever the record holds.
C18_RefreshKeepsIdentifier ==
    [][(last'.op = "refresh" /\ last'.outcome = "ok") =>
          /\ elements_count' = Len(elements)
          /\ comments_count' = remoteData.comments_count
          /\ \A f \in DatasetFields : data'[f] = remoteData[f]
          /\ data'.url_prefix = data.url_prefix]_vars

\* C19: add_element, keyed delete, keyed lookup, keys and iteration leave
\* the title, description, reference and tags a setter stored as they are;
\* a setter stores its value under its field, touches no other field and
\* issues no request; and update() issues one PATCH whose body is the
\* local value of every field but url_prefix.
C19_SetValueKept ==
    [][/\ last'.op \in {"add_element", "delitem", "getitem", "keys", "iterate"} =>
             \A f \in DatasetFields : data'[f] = data[f]
       /\ last'.op \in {"set_title", "set_description", "set_tags", "set_reference"} =>
             /\ last'.reqs = <<>>
             /\ remoteVars' = remoteVars
             /\ data'[last'.field] = last'.value
             /\ \A f \in (DOMAIN data) \ {last'.field} : data'[f] = data[f]
       /\ last'.op = "update" =>
             /\ last'.reqs = <<"PATCH dataset">>
             /\ DOMAIN last'.body = DatasetFields
             /\ \A f \in DatasetFields : last'.body[f] = data[f]
             /\ data' = data]_vars

----------------------------------------------------------------------------
\* save_to_folder: the two passes.

\* The number of list requests of call l.
ListRequests(l) ==
    Cardinality({k \in 1..Len(l.reqs) : l.reqs[k].req = "GET elements"})

\* C16: an export issues its list requests first, for the pages 0, 1, ...
\* each once, and has written the metadata file before its first keyed
\* request; after them it issues, entry by entry of the index, the keyed
\* fetch of the element and of its content, for every entry once when the
\* export completes, and no list request.
C16_TwoPass ==
    last.op = "save_to_folder" =>
        LET nl    == ListRequests(last)
            keyed == Len(last.reqs) - nl
        IN  /\ \A k \in 1..nl :
                   /\ last.reqs[k].req = "GET elements"
                   /\ last.reqs[k].arg = k - 1
            /\ \A j \in 1..keyed :
                   /\ (j + 1) \div 2 <= Len(last.metadata)
                   /\ last.reqs[nl + j].arg = last.metadata[(j + 1) \div 2].value.id
                   /\ last.reqs[nl + j].req =
                          IF j % 2 = 1 THEN "GET element" ELSE "GET content"
            /\ keyed > 0 =>
                   /\ MetadataFileWritten(fs, last)
                   /\ \E k \in 1..Len(last.io) : last.io[k] = "write metadata"
                   /\ nl = NonEmptyPages + 1
            /\ last.outcome = "ok" =>
                   /\ nl = NonEmptyPages + 1
                   /\ keyed = 2 * Len(last.metadata)
                   /\ Len(last.metadata) = Len(elements)

\* An export over two elements whose first keyed fetch failed: both list
\* passes are done and the metadata file is written, no content file is.
C16_Witness ==
    /\ last.op = "save_to_folder"
    /\ ~last.again
    /\ Len(last.metadata) = 2
    /\ last.outcome # "ok"
    /\ last.entry = 1
    /\ Len(last.reqs) = ListRequests(last) + 1
    /\ MetadataFileWritten(fs, last)
    /\ fs.content = <<>>

====
